---- MODULE Spec2Model ----
(***************************************************************************)
(* Model of python/llm/example/NPU/HF-Transformers-AutoModels/LLM/          *)
(* Pipeline-Models/llama3.py: the chat-prompt builder get_prompt and the    *)
(* __main__ generation harness that loads a model, runs three generation    *)
(* passes and prints timings.                                               *)
(*                                                                          *)
(* A Python str is modelled as a sequence of one-character strings, so that *)
(* strip(), f-string interpolation and ''.join are computed character by    *)
(* character.                                                               *)
(***************************************************************************)
EXTENDS Integers, Sequences, FiniteSets, TLC

VARIABLES
    \* ---- get_prompt, called on its own (SpecPrompt) ----
    user_input,         \* argument user_input
    chat_history,       \* argument chat_history: sequence of <<input, response>>
    system_prompt,      \* argument system_prompt
    returned,           \* TRUE once get_prompt has returned
    prompt_str,         \* the returned string
    \* ---- __main__ (Spec) ----
    pc,                 \* position in the script
    lowbit_path,        \* args.lowbit_path
    fs,                 \* the paths that exist on disk (os.path.exists)
    fs_at_launch,       \* fs when the script was started
    disable_streaming,  \* args.disable_streaming
    arg_prompt,         \* args.prompt
    model,              \* how the model object was obtained
    streamer,           \* "None" or "TextStreamer"
    i,                  \* loop variable of `for i in range(3)`
    prompt,             \* local prompt
    input_ids,          \* local _input_ids
    wall_clock,         \* the system's wall clock, read by time.time()
    st,                 \* local st
    end,                \* local end
    output,             \* local output
    trace,              \* external calls and prints, in order
    elapsed             \* the values printed as "Inference time"

promptVars == <<user_input, chat_history, system_prompt, returned, prompt_str>>
mainVars == <<pc, lowbit_path, fs, fs_at_launch, disable_streaming, arg_prompt, model, streamer,
              i, prompt, input_ids, wall_clock, st, end, output, trace, elapsed>>
vars == <<promptVars, mainVars>>

-----------------------------------------------------------------------------
(* Template literals of get_prompt, lines 35-44.                           *)

BEGIN_OF_TEXT ==
    <<"<","|","b","e","g","i","n","_","o","f","_","t","e","x","t","|",">">>

START_HEADER_ID ==
    <<"<","|","s","t","a","r","t","_","h","e","a","d","e","r","_","i","d","|",">">>

END_HEADER_ID ==
    <<"<","|","e","n","d","_","h","e","a","d","e","r","_","i","d","|",">">>

EOT_ID ==
    <<"<","|","e","o","t","_","i","d","|",">">>

SYSTEM ==
    <<"s","y","s","t","e","m">>

USER ==
    <<"u","s","e","r">>

ASSISTANT ==
    <<"a","s","s","i","s","t","a","n","t">>

NLNL == <<"\n", "\n">>

-----------------------------------------------------------------------------
(* str.strip() with no argument: removes leading and trailing whitespace.  *)
(* Whitespace lists the ASCII whitespace characters a TLA+ string can      *)
(* spell.                                                                   *)

Whitespace == {" ", "\t", "\n", "\r", "\f"}

RECURSIVE lstrip(_)
lstrip(s) ==
    IF s # <<>> /\ Head(s) \in Whitespace THEN lstrip(Tail(s)) ELSE s

RECURSIVE rstrip(_)
rstrip(s) ==
    IF s # <<>> /\ s[Len(s)] \in Whitespace
    THEN rstrip(SubSeq(s, 1, Len(s) - 1))
    ELSE s

\* a variant that trims the left side only
strip_left_only(s) == lstrip(s)

strip(s) == rstrip(lstrip(s))

-----------------------------------------------------------------------------
(* get_prompt, lines 33-45.                                                 *)

\* a variant that trims the system prompt as well
SystemTurnStripped(sp) ==
    START_HEADER_ID \o SYSTEM \o END_HEADER_ID \o NLNL \o strip(sp) \o EOT_ID

\* line 38: the f-string appended when system_prompt != ''
SystemTurn(sp) ==
    START_HEADER_ID \o SYSTEM \o END_HEADER_ID \o NLNL \o sp \o EOT_ID

\* line 41
UserTurn(history_input) ==
    START_HEADER_ID \o USER \o END_HEADER_ID \o NLNL \o strip(history_input) \o EOT_ID

\* line 42
AssistantTurn(history_response) ==
    START_HEADER_ID \o ASSISTANT \o END_HEADER_ID \o NLNL
        \o strip(history_response) \o EOT_ID

\* line 44
FinalTurn(ui) ==
    START_HEADER_ID \o USER \o END_HEADER_ID \o NLNL \o strip(ui) \o EOT_ID
        \o START_HEADER_ID \o ASSISTANT \o END_HEADER_ID \o NLNL

\* lines 40-42: the loop over chat_history, appending two pieces per turn
RECURSIVE AppendHistory(_, _)
AppendHistory(prompt_texts, history) ==
    IF history = <<>>
    THEN prompt_texts
    ELSE AppendHistory(
            prompt_texts \o <<UserTurn(Head(history)[1]),
                              AssistantTurn(Head(history)[2])>>,
            Tail(history))

\* a variant that joins with a separator
RECURSIVE JoinWithNewline(_)
JoinWithNewline(texts) ==
    IF texts = <<>> THEN <<>>
    ELSE IF Len(texts) = 1 THEN Head(texts)
    ELSE Head(texts) \o <<"\n">> \o JoinWithNewline(Tail(texts))

\* line 45: ''.join(prompt_texts)
RECURSIVE Join(_)
Join(texts) ==
    IF texts = <<>> THEN <<>> ELSE Head(texts) \o Join(Tail(texts))

\* a variant that appends the system block after the history
get_prompt_system_last(ui, history, sp) ==
    LET p0 == <<BEGIN_OF_TEXT>>
        p1 == AppendHistory(p0, history)
        p2 == IF sp # <<>> THEN Append(p1, SystemTurn(sp)) ELSE p1
        p3 == Append(p2, FinalTurn(ui))
    IN  Join(p3)

\* a variant without the test of line 37
get_prompt_always_system(ui, history, sp) ==
    LET p0 == <<BEGIN_OF_TEXT>>
        p1 == Append(p0, SystemTurn(sp))
        p2 == AppendHistory(p1, history)
        p3 == Append(p2, FinalTurn(ui))
    IN  Join(p3)

get_prompt(ui, history, sp) ==
    LET p0 == <<BEGIN_OF_TEXT>>                                   \* line 35
        p1 == IF sp # <<>> THEN Append(p0, SystemTurn(sp)) ELSE p0 \* lines 37-38
        p2 == AppendHistory(p1, history)                          \* lines 40-42
        p3 == Append(p2, FinalTurn(ui))                           \* line 44
    IN  Join(p3)                                                  \* line 45

\* line 30: DEFAULT_SYSTEM_PROMPT = """\ """ is the empty string
DEFAULT_SYSTEM_PROMPT == <<>>

-----------------------------------------------------------------------------
(* Inputs of the get_prompt check.                                          *)

WhatIsAI ==
    <<"W","h","a","t"," ","i","s"," ","A","I","?">>

Hi ==
    <<"H","i">>

Hello ==
    <<"H","e","l","l","o">>

HiThere ==
    <<"H","i"," ","t","h","e","r","e">>

BeNice ==
    <<"B","e"," ","n","i","c","e">>

MaxLen == 2
MaxHist == 1

Chars == {"a", " "}

PlainTexts == UNION {[1..n -> Chars] : n \in 0..MaxLen}

\* a text that itself spells a whole system-role block
InjectedSystem ==
    START_HEADER_ID \o SYSTEM \o END_HEADER_ID \o NLNL \o <<"x">> \o EOT_ID

UserInputs ==
    PlainTexts \cup {Hi, WhatIsAI, <<" ", "\n">> \o Hi \o <<"\t">>, InjectedSystem}

SystemPrompts ==
    PlainTexts \cup {BeNice, <<" ">> \o BeNice \o <<"\n">>, InjectedSystem}

HistoryInputs == {Hello, <<"\n">> \o Hello \o <<" ">>, InjectedSystem}

HistoryResponses == {HiThere, <<" ">> \o HiThere \o <<"\t", " ">>}

Histories ==
    UNION {[1..n -> HistoryInputs \X HistoryResponses] : n \in 0..MaxHist}

-----------------------------------------------------------------------------
(* Vocabulary of the properties of get_prompt.                              *)

IsPrefix(p, s) == Len(p) <= Len(s) /\ SubSeq(s, 1, Len(p)) = p

\* the positions of s where pat occurs
Occurrences(pat, s) ==
    {k \in 1..(Len(s) - Len(pat) + 1) :
        s[k] = pat[1] /\ SubSeq(s, k, k + Len(pat) - 1) = pat}

Contains(pat, s) == Occurrences(pat, s) # {}

\* a role header as it begins a block, and a whole block around a text
RoleHeader(role) == START_HEADER_ID \o role \o END_HEADER_ID \o NLNL
RoleBlock(role, text) == RoleHeader(role) \o text \o EOT_ID

\* the marker that opens a system-role block, wherever it stands
SystemRoleHeader == START_HEADER_ID \o SYSTEM \o END_HEADER_ID

\* t without its leading and trailing whitespace, by position
NonWs(t) == {k \in 1..Len(t) : t[k] \notin Whitespace}
Min(S) == CHOOSE x \in S : \A y \in S : x <= y
Max(S) == CHOOSE x \in S : \A y \in S : x >= y
Trimmed(t) == IF NonWs(t) = {} THEN <<>> ELSE SubSeq(t, Min(NonWs(t)), Max(NonWs(t)))

Padded(t) == t # <<>> /\ (t[1] \in Whitespace \/ t[Len(t)] \in Whitespace)

RECURSIVE TurnBlocks(_)
TurnBlocks(history) ==
    IF history = <<>> THEN <<>>
    ELSE RoleBlock(USER, Trimmed(Head(history)[1]))
            \o RoleBlock(ASSISTANT, Trimmed(Head(history)[2]))
            \o TurnBlocks(Tail(history))

ScenarioArgs ==
    /\ user_input = Hi
    /\ chat_history = <<<<Hello, HiThere>>>>
    /\ system_prompt = BeNice


\* what Python's get_prompt returns on the two scenarios of the specification
ScenarioWhatIsAI ==
    <<"<","|","b","e","g","i","n","_","o","f","_","t","e","x","t","|",">","<","|","s","t","a",
    "r","t","_","h","e","a","d","e","r","_","i","d","|",">","u","s","e","r","<","|","e","n","d",
    "_","h","e","a","d","e","r","_","i","d","|",">","\n","\n","W","h","a","t"," ","i","s"," ",
    "A","I","?","<","|","e","o","t","_","i","d","|",">","<","|","s","t","a","r","t","_","h","e",
    "a","d","e","r","_","i","d","|",">","a","s","s","i","s","t","a","n","t","<","|","e","n","d",
    "_","h","e","a","d","e","r","_","i","d","|",">","\n","\n">>

ScenarioBeNice ==
    <<"<","|","b","e","g","i","n","_","o","f","_","t","e","x","t","|",">","<","|","s","t","a",
    "r","t","_","h","e","a","d","e","r","_","i","d","|",">","s","y","s","t","e","m","<","|","e",
    "n","d","_","h","e","a","d","e","r","_","i","d","|",">","\n","\n","B","e"," ","n","i","c",
    "e","<","|","e","o","t","_","i","d","|",">","<","|","s","t","a","r","t","_","h","e","a","d",
    "e","r","_","i","d","|",">","u","s","e","r","<","|","e","n","d","_","h","e","a","d","e","r",
    "_","i","d","|",">","\n","\n","H","e","l","l","o","<","|","e","o","t","_","i","d","|",">",
    "<","|","s","t","a","r","t","_","h","e","a","d","e","r","_","i","d","|",">","a","s","s","i",
    "s","t","a","n","t","<","|","e","n","d","_","h","e","a","d","e","r","_","i","d","|",">",
    "\n","\n","H","i"," ","t","h","e","r","e","<","|","e","o","t","_","i","d","|",">","<","|",
    "s","t","a","r","t","_","h","e","a","d","e","r","_","i","d","|",">","u","s","e","r","<","|",
    "e","n","d","_","h","e","a","d","e","r","_","i","d","|",">","\n","\n","H","i","<","|","e",
    "o","t","_","i","d","|",">","<","|","s","t","a","r","t","_","h","e","a","d","e","r","_","i",
    "d","|",">","a","s","s","i","s","t","a","n","t","<","|","e","n","d","_","h","e","a","d","e",
    "r","_","i","d","|",">","\n","\n">>

-----------------------------------------------------------------------------
(* get_prompt called on its own: the arguments are drawn by InitPrompt.     *)

MainIdle ==
    /\ pc = "off"
    /\ lowbit_path = ""
    /\ fs = {}
    /\ fs_at_launch = {}
    /\ disable_streaming = FALSE
    /\ arg_prompt = <<>>
    /\ model = "none"
    /\ streamer = "unset"
    /\ i = 0
    /\ prompt = <<>>
    /\ input_ids = "none"
    /\ wall_clock = 0
    /\ st = 0
    /\ end = 0
    /\ output = <<>>
    /\ trace = <<>>
    /\ elapsed = <<>>

InitPrompt ==
    /\ user_input \in UserInputs
    /\ chat_history \in Histories
    /\ system_prompt \in SystemPrompts
    /\ returned = FALSE
    /\ prompt_str = <<>>
    /\ MainIdle

CallGetPrompt ==
    /\ pc = "off"
    /\ ~returned
    /\ prompt_str' = get_prompt(user_input, chat_history, system_prompt)
    /\ returned' = TRUE
    /\ UNCHANGED <<user_input, chat_history, system_prompt, mainVars>>

NextPrompt == CallGetPrompt

SpecPrompt == InitPrompt /\ [][NextPrompt]_vars

-----------------------------------------------------------------------------
(* Properties of get_prompt, checked under SpecPrompt.                      *)

C2_SystemBlockTrimmed ==
    (returned /\ system_prompt # <<>>) =>
        IsPrefix(BEGIN_OF_TEXT \o RoleBlock(SYSTEM, Trimmed(system_prompt)), prompt_str)

\* C2 amended: the system-role block holds system_prompt verbatim, whitespace
\* included, between the system header and the end-of-turn marker.
C2_SystemBlockVerbatim ==
    (returned /\ system_prompt # <<>>) =>
        IsPrefix(BEGIN_OF_TEXT \o RoleBlock(SYSTEM, system_prompt), prompt_str)

C2_Witness ==
    /\ returned
    /\ Padded(system_prompt)
    /\ IsPrefix(BEGIN_OF_TEXT \o RoleBlock(SYSTEM, system_prompt), prompt_str)

\* The texts of the user and assistant blocks, in the order of the output:
\* each turn's input and response, then user_input.
BlockTexts ==
    [j \in 1..(2 * Len(chat_history) + 1) |->
        IF j = 2 * Len(chat_history) + 1 THEN user_input
        ELSE chat_history[(j + 1) \div 2][IF j % 2 = 1 THEN 1 ELSE 2]]

BlockRole(j) == IF j % 2 = 1 THEN USER ELSE ASSISTANT

RECURSIVE BlockStart(_)
\* the number of characters of the output before block j
BlockStart(j) ==
    IF j = 1
    THEN Len(BEGIN_OF_TEXT)
            + (IF system_prompt # <<>> THEN Len(RoleBlock(SYSTEM, system_prompt)) ELSE 0)
    ELSE BlockStart(j - 1) + Len(RoleBlock(BlockRole(j - 1), Trimmed(BlockTexts[j - 1])))

\* what stands in the output between block j's header and the next marker
BlockContent(j) ==
    SubSeq(prompt_str,
           BlockStart(j) + Len(RoleHeader(BlockRole(j))) + 1,
           BlockStart(j) + Len(RoleHeader(BlockRole(j))) + Len(Trimmed(BlockTexts[j])))

\* C3: stripping law.  Every user and assistant block is its role header,
\* directly followed by the text without its leading and trailing
\* whitespace, directly followed by the end-of-turn marker; the content
\* neither begins nor ends with a whitespace character.
C3_StrippingLaw ==
    returned =>
        \A j \in DOMAIN BlockTexts :
            LET hdr == RoleHeader(BlockRole(j))
                from == BlockStart(j)
                body == BlockContent(j)
            IN  /\ SubSeq(prompt_str, from + 1, from + Len(hdr)) = hdr
                /\ body = Trimmed(BlockTexts[j])
                /\ ~Padded(body)
                /\ SubSeq(prompt_str, from + Len(hdr) + Len(body) + 1,
                          from + Len(hdr) + Len(body) + Len(EOT_ID)) = EOT_ID

C3_Witness ==
    /\ returned
    /\ Len(chat_history) >= 1
    /\ Padded(user_input)
    /\ Padded(chat_history[1][1])
    /\ Padded(chat_history[1][2])
    /\ BlockContent(1) = Hello

SystemBlocks == Occurrences(SystemRoleHeader, prompt_str)

NoSystemHeaderInArgs ==
    /\ ~Contains(SystemRoleHeader, user_input)
    /\ ~Contains(SystemRoleHeader, system_prompt)
    /\ \A k \in DOMAIN chat_history :
          /\ ~Contains(SystemRoleHeader, chat_history[k][1])
          /\ ~Contains(SystemRoleHeader, chat_history[k][2])

\* the output opens with begin-of-text directly followed by the system block,
\* and no user or assistant header stands before it
SystemBlockLeads ==
    /\ IsPrefix(BEGIN_OF_TEXT \o RoleHeader(SYSTEM), prompt_str)
    /\ \A k \in Occurrences(START_HEADER_ID, prompt_str) : k >= Len(BEGIN_OF_TEXT) + 1

\* C4 as stated: for every non-empty system_prompt and arbitrary texts the
\* output holds exactly one system-role block, directly after begin-of-text
\* and before every history or user block.
C4_ExactlyOneSystemBlock ==
    (returned /\ system_prompt # <<>>) =>
        /\ SystemBlockLeads
        /\ Cardinality(SystemBlocks) = 1

\* C4 amended: for every non-empty system_prompt the output opens with
\* begin-of-text directly followed by a system-role block, before every
\* history or user block; it is the only system-role block when no argument
\* text itself contains a system-role header.
C4_SystemBlockFirst ==
    (returned /\ system_prompt # <<>>) =>
        /\ SystemBlockLeads
        /\ NoSystemHeaderInArgs => Cardinality(SystemBlocks) = 1

C4_Witness ==
    /\ returned
    /\ system_prompt # <<>>
    /\ Len(chat_history) >= 1
    /\ NoSystemHeaderInArgs
    /\ SystemBlocks = {Len(BEGIN_OF_TEXT) + 1}

\* C5 as stated: with empty history and empty system_prompt, for every user
\* text the output begins with begin-of-text and holds no system-role block.
C5_NoSystemBlock ==
    (returned /\ chat_history = <<>> /\ system_prompt = <<>>) =>
        /\ IsPrefix(BEGIN_OF_TEXT, prompt_str)
        /\ SystemBlocks = {}

\* C5 amended: with empty history and empty system_prompt the output begins
\* with begin-of-text directly followed by the user header (get_prompt emits
\* no system block, empty or not); it holds no system-role block at all when
\* the user text itself contains no system-role header.
C5_NoSystemBlockEmitted ==
    (returned /\ chat_history = <<>> /\ system_prompt = <<>>) =>
        /\ IsPrefix(BEGIN_OF_TEXT \o RoleHeader(USER), prompt_str)
        /\ ~Contains(SystemRoleHeader, user_input) => SystemBlocks = {}

C5_Witness ==
    /\ returned
    /\ chat_history = <<>>
    /\ system_prompt = <<>>
    /\ user_input = WhatIsAI
    /\ prompt_str = ScenarioWhatIsAI
    /\ SystemBlocks = {}

-----------------------------------------------------------------------------
(* __main__, lines 47-130.                                                  *)

MaxClock == 2

\* line 111: for i in range(3)
N_ITER == 3

LowbitPaths == {"", "lowbit_dir"}

Prompts == {WhatIsAI, <<" ">> \o Hi \o <<"\n">>}

\* what generate may return, written as the text the ids decode to
Outputs == {<<"4", "2">>, <<"A", "I">>}

PromptIdle ==
    /\ user_input = <<>>
    /\ chat_history = <<>>
    /\ system_prompt = <<>>
    /\ returned = FALSE
    /\ prompt_str = <<>>

Init ==
    /\ PromptIdle
    /\ pc = "load"
    /\ lowbit_path \in LowbitPaths
    /\ fs \in SUBSET {"lowbit_dir"}
    /\ fs_at_launch = fs
    /\ disable_streaming \in BOOLEAN
    /\ arg_prompt \in Prompts
    /\ model = "none"
    /\ streamer = "unset"
    /\ i = 0
    /\ prompt = <<>>
    /\ input_ids = "none"
    /\ wall_clock \in 0..MaxClock
    /\ st = 0
    /\ end = 0
    /\ output = <<>>
    /\ trace = <<>>
    /\ elapsed = <<>>

\* os.path.exists(path); os.path.exists('') is False
Exists(path) == path \in fs

\* an external call that returns: the script goes on at `next`
Returns(call, next) ==
    /\ trace' = Append(trace, call)
    /\ pc' = next

\* a variant that catches the exception and goes on to the final status lines
RaisesSwallowed(call) ==
    /\ trace' = trace \o <<call, <<"raise", call[1]>>>>
    /\ pc' = "final"

\* an external call that raises: nothing in lines 47-130 catches it, the
\* script ends with the traceback
Raises(call) ==
    /\ trace' = trace \o <<call, <<"raise", call[1]>>>>
    /\ pc' = "aborted"

\* line 76: not args.lowbit_path or not os.path.exists(args.lowbit_path)
UsePretrained == lowbit_path = "" \/ ~Exists(lowbit_path)

\* lines 76-95
LoadModel ==
    /\ pc = "load"
    /\ LET call == IF UsePretrained
                   THEN <<"from_pretrained", "model_path">>
                   ELSE <<"load_low_bit", lowbit_path>>
       IN  \/ /\ Returns(call, "tokenizer")
              /\ model' = call[1]
           \/ /\ Raises(call)
              /\ UNCHANGED model
    /\ UNCHANGED <<promptVars, lowbit_path, fs, fs_at_launch, disable_streaming,
                   arg_prompt, streamer, i, prompt, input_ids, wall_clock, st,
                   end, output, elapsed>>

\* line 97
LoadTokenizer ==
    /\ pc = "tokenizer"
    /\ LET call == <<"AutoTokenizer.from_pretrained", "model_path">>
       IN  Returns(call, "save") \/ Raises(call)
    /\ UNCHANGED <<promptVars, lowbit_path, fs, fs_at_launch, disable_streaming,
                   arg_prompt, model, streamer, i, prompt, input_ids,
                   wall_clock, st, end, output, elapsed>>

\* a variant that saves whenever a path is given
ShouldSaveWheneverGiven == lowbit_path # ""

\* line 99: args.lowbit_path and not os.path.exists(args.lowbit_path)
ShouldSave == lowbit_path # "" /\ ~Exists(lowbit_path)

\* lines 99-100
SaveLowBit ==
    /\ pc = "save"
    /\ LET call == <<"save_low_bit", lowbit_path>>
       IN  \/ /\ ShouldSave
              /\ Returns(call, "streamer")
              /\ fs' = fs \cup {lowbit_path}
           \/ /\ ShouldSave
              /\ Raises(call)
              /\ UNCHANGED fs
           \/ /\ ~ShouldSave
              /\ pc' = "streamer"
              /\ UNCHANGED <<trace, fs>>
    /\ UNCHANGED <<promptVars, lowbit_path, fs_at_launch, disable_streaming,
                   arg_prompt, model, streamer, i, prompt, input_ids,
                   wall_clock, st, end, output, elapsed>>

\* a variant that ignores --disable-streaming
StreamerAlways == "TextStreamer"

\* lines 102-105
Streamer == IF disable_streaming THEN "None" ELSE "TextStreamer"

\* lines 102-110: the streamer, then the prints before the loop
MakeStreamer ==
    /\ pc = "streamer"
    /\ streamer' = Streamer
    /\ trace' = trace \o <<<<"print", "done">>, <<"print", "finish to load">>>>
    /\ pc' = "loop"
    /\ UNCHANGED <<promptVars, lowbit_path, fs, fs_at_launch, disable_streaming,
                   arg_prompt, model, i, prompt, input_ids, wall_clock, st,
                   end, output, elapsed>>

\* a variant that carries the previous output into the next prompt
LoopPromptCarried ==
    get_prompt(arg_prompt,
               IF output = <<>> THEN <<>> ELSE <<<<arg_prompt, output>>>>,
               DEFAULT_SYSTEM_PROMPT)

\* line 112
LoopPrompt == get_prompt(arg_prompt, <<>>, DEFAULT_SYSTEM_PROMPT)

\* lines 111-112: the next pass of the loop begins
BuildPrompt ==
    /\ pc = "loop"
    /\ i < N_ITER
    /\ prompt' = LoopPrompt
    /\ pc' = "encode"
    /\ UNCHANGED <<promptVars, lowbit_path, fs, fs_at_launch, disable_streaming,
                   arg_prompt, model, streamer, i, input_ids, wall_clock, st,
                   end, output, trace, elapsed>>

\* lines 113-117: tokenizer.encode, then the prints of the input
Encode ==
    /\ pc = "encode"
    /\ LET call == <<"encode", prompt>>
       IN  \/ /\ trace' = trace \o <<call, <<"print", "prompt">>>>
              /\ pc' = "start"
              /\ input_ids' = "ids"
           \/ /\ Raises(call)
              /\ UNCHANGED input_ids
    /\ UNCHANGED <<promptVars, lowbit_path, fs, fs_at_launch, disable_streaming,
                   arg_prompt, model, streamer, i, prompt, wall_clock, st, end,
                   output, elapsed>>

\* line 118: st = time.time()
StartTimer ==
    /\ pc = "start"
    /\ st' = wall_clock
    /\ trace' = Append(trace, <<"time", "st">>)
    /\ pc' = "generate"
    /\ UNCHANGED <<promptVars, lowbit_path, fs, fs_at_launch, disable_streaming,
                   arg_prompt, model, streamer, i, prompt, input_ids,
                   wall_clock, end, output, elapsed>>

\* lines 119-121: model.generate blocks while time passes; time.time() reads
\* the system's wall clock, which the system may also set back meanwhile
Generate ==
    /\ pc = "generate"
    /\ LET call == <<"generate", streamer>>
       IN  \/ /\ Returns(call, "end")
              /\ output' \in Outputs
              /\ wall_clock' \in wall_clock..MaxClock
           \/ /\ Returns(call, "end")
              /\ output' \in Outputs
              /\ wall_clock' \in 0..(wall_clock - 1)
           \/ /\ Raises(call)
              /\ UNCHANGED <<output, wall_clock>>
    /\ UNCHANGED <<promptVars, lowbit_path, fs, fs_at_launch, disable_streaming,
                   arg_prompt, model, streamer, i, prompt, input_ids, st, end,
                   elapsed>>

\* line 122: end = time.time()
EndTimer ==
    /\ pc = "end"
    /\ end' = wall_clock
    /\ trace' = Append(trace, <<"time", "end">>)
    /\ pc' = "decode"
    /\ UNCHANGED <<promptVars, lowbit_path, fs, fs_at_launch, disable_streaming,
                   arg_prompt, model, streamer, i, prompt, input_ids,
                   wall_clock, st, output, elapsed>>

\* lines 123-125
Decode ==
    /\ pc = "decode"
    /\ LET call == <<"decode", "skip_special_tokens=False">>
       IN  \/ /\ disable_streaming
              /\ trace' = trace \o <<call, <<"print", "output_str">>>>
              /\ pc' = "report"
           \/ /\ disable_streaming
              /\ Raises(call)
           \/ /\ ~disable_streaming
              /\ pc' = "report"
              /\ UNCHANGED trace
    /\ UNCHANGED <<promptVars, lowbit_path, fs, fs_at_launch, disable_streaming,
                   arg_prompt, model, streamer, i, prompt, input_ids,
                   wall_clock, st, end, output, elapsed>>

\* line 126: print(f"Inference time: {end-st} s"); the pass is over
Report ==
    /\ pc = "report"
    /\ elapsed' = Append(elapsed, end - st)
    /\ trace' = Append(trace, <<"print", "Inference time">>)
    /\ i' = i + 1
    /\ pc' = "loop"
    /\ UNCHANGED <<promptVars, lowbit_path, fs, fs_at_launch, disable_streaming,
                   arg_prompt, model, streamer, prompt, input_ids, wall_clock,
                   st, end, output>>

\* line 111: range(3) is exhausted, the loop and the inference_mode block end
ExitLoop ==
    /\ pc = "loop"
    /\ i = N_ITER
    /\ pc' = "final"
    /\ UNCHANGED <<promptVars, lowbit_path, fs, fs_at_launch, disable_streaming,
                   arg_prompt, model, streamer, i, prompt, input_ids,
                   wall_clock, st, end, output, trace, elapsed>>

\* lines 128-130
Final ==
    /\ pc = "final"
    /\ trace' = trace \o <<<<"print", "done">>, <<"print", "success shut down">>>>
    /\ pc' = "done"
    /\ UNCHANGED <<promptVars, lowbit_path, fs, fs_at_launch, disable_streaming,
                   arg_prompt, model, streamer, i, prompt, input_ids,
                   wall_clock, st, end, output, elapsed>>

Next ==
    \/ LoadModel
    \/ LoadTokenizer
    \/ SaveLowBit
    \/ MakeStreamer
    \/ BuildPrompt
    \/ Encode
    \/ StartTimer
    \/ Generate
    \/ EndTimer
    \/ Decode
    \/ Report
    \/ ExitLoop
    \/ Final

Spec == Init /\ [][Next]_vars

-----------------------------------------------------------------------------
(* Properties of __main__, checked under Spec.                              *)

\* the positions of the trace that hold an entry of this kind
Idx(kind) == {k \in DOMAIN trace : trace[k][1] = kind}

Prints(what) == {k \in DOMAIN trace : trace[k][1] = "print" /\ trace[k][2] = what}

Times(what) == {k \in DOMAIN trace : trace[k][1] = "time" /\ trace[k][2] = what}

\* an entry as one word; the argument of encode is a prompt, not a word
Label(k) ==
    IF trace[k][1] \in {"print", "time"} THEN trace[k][2] ELSE trace[k][1]

Raised == Idx("raise")

\* C6: with streaming disabled and no failing call, the run makes exactly 3
\* passes, prints exactly 3 decoded outputs and 3 elapsed times, each
\* end - st >= 0, and then ends after the final status lines.
C6_ThreeOutputsNonNegativeTimes ==
    (pc = "done" /\ disable_streaming) =>
        /\ i = N_ITER
        /\ Cardinality(Idx("decode")) = 3
        /\ Cardinality(Prints("output_str")) = 3
        /\ Cardinality(Prints("Inference time")) = 3
        /\ Len(elapsed) = 3
        /\ \A k \in DOMAIN elapsed : elapsed[k] >= 0
        /\ Label(Len(trace)) = "success shut down"

\* C7: fail-fast.  A raise is the last thing that happens: no retry, no
\* further call, no later pass.  When encode, generate or decode raises, the
\* failed pass made that call once and its elapsed time is not printed.
\* "success shut down" is printed only after 3 complete passes and no raise.
C7_FailFast ==
    /\ \A k \in Raised : k = Len(trace) /\ pc = "aborted"
    /\ pc = "aborted" => Raised # {}
    /\ \A k \in Raised :
          trace[k][2] \in {"encode", "generate", "decode"} =>
              /\ trace[k - 1][1] = trace[k][2]
              /\ Cardinality(Idx(trace[k][2])) = Cardinality(Idx("encode"))
              /\ Cardinality(Prints("Inference time")) = Cardinality(Idx("encode")) - 1
              /\ Len(elapsed) = Cardinality(Idx("encode")) - 1
    /\ Prints("success shut down") # {} =>
          /\ Raised = {}
          /\ Cardinality(Prints("Inference time")) = N_ITER

C7_Witness ==
    /\ pc = "aborted"
    /\ i = 1
    /\ trace[Len(trace)] = <<"raise", "generate">>
    /\ Len(elapsed) = 1

Loads == Idx("from_pretrained") \cup Idx("load_low_bit")

Saves == Idx("save_low_bit")

\* C8: one model load per run.  Path given and present at launch: load_low_bit
\* from that path, no from_pretrained, never save_low_bit.  Path given and
\* absent: from_pretrained, and save_low_bit exactly once on that path, after
\* the load and before the first generation.  No path: from_pretrained, never
\* save_low_bit.
C8_LowBitPath ==
    /\ pc = "load" => Loads = {}
    /\ pc # "load" => Loads = {1}
    /\ (lowbit_path # "" /\ lowbit_path \in fs_at_launch) =>
          /\ Idx("from_pretrained") = {}
          /\ \A k \in Loads : trace[k][2] = lowbit_path
          /\ Saves = {}
    /\ (lowbit_path # "" /\ lowbit_path \notin fs_at_launch) =>
          /\ Idx("load_low_bit") = {}
          /\ Cardinality(Saves) <= 1
          /\ \A k \in Saves :
                /\ trace[k][2] = lowbit_path
                /\ \A l \in Loads : l < k
                /\ \A g \in Idx("encode") \cup Idx("generate") : k < g
          /\ Prints("finish to load") # {} => Cardinality(Saves) = 1
    /\ lowbit_path = "" =>
          /\ Idx("load_low_bit") = {}
          /\ Saves = {}

C8_Witness ==
    /\ pc = "done"
    /\ lowbit_path # ""
    /\ lowbit_path \notin fs_at_launch
    /\ Idx("from_pretrained") = {1}
    /\ Cardinality(Saves) = 1

\* C9: generate gets a streaming sink iff streaming is not disabled.  With
\* streaming disabled every reported pass decoded the output with
\* skip_special_tokens=False and printed it; with streaming enabled the
\* script never calls decode.
C9_StreamingSwitch ==
    /\ \A k \in Idx("generate") :
          /\ trace[k][2] = "TextStreamer" <=> ~disable_streaming
          /\ trace[k][2] = "None" <=> disable_streaming
    /\ ~disable_streaming => Idx("decode") = {}
    /\ disable_streaming =>
          /\ \A k \in Idx("decode") : trace[k][2] = "skip_special_tokens=False"
          /\ \A k \in Prints("Inference time") :
                Label(k - 1) = "output_str" /\ Label(k - 2) = "decode"

C9_Witness ==
    /\ pc = "done"
    /\ disable_streaming
    /\ Cardinality(Idx("decode")) = 3
    /\ \A k \in Idx("generate") : trace[k][2] = "None"

\* what may stand directly before each entry of a pass
MayPrecede(k) ==
    CASE Label(k) = "encode" -> {"finish to load", "Inference time"}
      [] Label(k) = "prompt" -> {"encode"}
      [] Label(k) = "st" -> {"prompt"}
      [] Label(k) = "generate" -> {"st"}
      [] Label(k) = "end" -> {"generate"}
      [] Label(k) = "decode" -> {"end"}
      [] Label(k) = "output_str" -> {"decode"}
      [] Label(k) = "Inference time" ->
            IF disable_streaming THEN {"output_str"} ELSE {"end"}
      [] OTHER -> {}

PassLabels ==
    {"encode", "prompt", "st", "generate", "end", "decode", "output_str",
     "Inference time"}

\* C10: every pass encodes the same prompt, built from the fixed user prompt,
\* an empty history and the fixed system prompt, whatever was generated
\* before; within a pass encode comes before the start timestamp, exactly one
\* generate lies between the two timestamps, decode/print and the elapsed time
\* come after the end timestamp, and the next pass begins only after the
\* elapsed time of this one was printed.
C10_PassOrder ==
    /\ \A k \in Idx("encode") :
          trace[k][2] = BEGIN_OF_TEXT \o RoleBlock(USER, Trimmed(arg_prompt))
                            \o RoleHeader(ASSISTANT)
    /\ \A k \in DOMAIN trace :
          Label(k) \in PassLabels => k > 1 /\ Label(k - 1) \in MayPrecede(k)
    /\ Cardinality(Idx("generate")) <= Cardinality(Times("st"))
    /\ Cardinality(Times("end")) <= Cardinality(Idx("generate"))

C10_Witness ==
    /\ pc = "done"
    /\ Cardinality(Idx("encode")) = 3
    /\ Cardinality(Idx("generate")) = 3
    /\ Padded(arg_prompt)
    /\ output # <<>>

====
